---- MODULE Spec2Model ----
(***************************************************************************)
(* A model of the shell of src/src/main.rs and src/src/redirection.rs:     *)
(* the line lexer (LineTokenIter), the redirection parser                  *)
(* (Redirection::parse), the output router (CommandOutput/CommandWriter)   *)
(* and the read-eval loop of main.                                         *)
(*                                                                         *)
(* A character is a one-character string, a Rust String a sequence of      *)
(* characters, an Option<T> a sequence of length 0 (None) or 1 (Some).     *)
(***************************************************************************)
EXTENDS Integers, Sequences, FiniteSets, TLC

VARIABLES
    \* ---- LineTokenIter, stepped one character at a time (SpecLex)
    line,           \* the &str handed to LineTokenIter::new
    chars,          \* self.chars: the characters not yet consumed
    redirection,    \* self.redirection: Option<String>
    token,          \* local `token` of the running next()
    quote,          \* local `quote` of the running next()
    ctl,            \* where the running next() stands: "loop", "break", "return_none", "panic", "done"
    items,          \* the items next() has returned so far (Some values, in order)
    \* ---- Redirection::parse, stepped one stage at a time (SpecRedir)
    raw,            \* the &str handed to Redirection::parse
    rpc,            \* where parse stands: "start", "source", "mode", or where it ended:
                    \* "ret_empty" (line 26), "ret_source" (48), "ret_mode" (58),
                    \* "ret_some" (61), "panic" (the unwrap of line 42)
    rchars,         \* local `chars`: the characters not yet consumed
    rsource,        \* local `source`
    rresult,        \* the value parse returned: Option<Redirection>
    \* ---- CommandOutput and its two CommandWriters (SpecRouter, Spec)
    outRedirect,    \* CommandOutput.redirect: the descriptor of Some((Redirection, RefCell<File>))
    handle,         \* the RefCell<File> of it: [pos, borrowed]; the file is fs[target]
    fs,             \* the file system: path -> [kind: "file" | "dir", bytes]
    stdoutBytes,    \* what has reached the inherited standard output
    stderrBytes,    \* what has reached the inherited standard error
    call,           \* the CommandWriter call in progress: Option<[sink, op, buf, dest]>
    callLog,        \* the CommandWriter calls that have returned, in order
    pc,             \* where the program stands: "prompt", "out", "dispatch", "writing",
                    \* "exited", "panicked"
    \* ---- main (Spec)
    input,          \* Option: the line the last read_line gave
    command,        \* Option: InputCommand.command of the line
    redirect,       \* InputCommand.redirect: Option<Redirection>
    pending,        \* the output calls the running command has still to make, in order
    cwd,            \* the working directory of the process
    home,           \* the environment variable HOME: Option<path>
    stdinEof,       \* the line source has reached end-of-input
    nread,          \* the number of read_line calls made
    exitCode,       \* Option: the code handed to process::exit
    ended           \* why the process ended, "" while it runs

lexVars == <<line, chars, redirection, token, quote, ctl, items>>
redirVars == <<raw, rpc, rchars, rsource, rresult>>

routerVars == <<outRedirect, handle, fs, stdoutBytes, stderrBytes, call, callLog, pc>>

mainVars == <<input, command, redirect, pending, cwd, home, stdinEof, nread, exitCode, ended>>

vars == <<lexVars, redirVars, routerVars, mainVars>>

----------------------------------------------------------------------------
(* Bounds of the model *)

\* longest line body (the characters before the line terminator) the lexer is run on
MaxBodyLen == 4
\* most leading zeros of a file-descriptor number handed to Redirection::parse
MaxZeros == 2
\* longest run of `>` handed to Redirection::parse
MaxGt == 3
\* longest run of spaces between the `>` run and the target
MaxWs == 2
\* longest target handed to Redirection::parse
MaxTargetLen == 2
\* most CommandWriter calls made on one CommandOutput in SpecRouter
MaxCalls == 3
\* most lines the read-eval loop reads
MaxReads == 1
\* most arguments of a command line of Spec
MaxArgs == 2

----------------------------------------------------------------------------
(* Characters and options *)

None == <<>>
Some(x) == <<x>>
IsSome(o) == Len(o) = 1
Unwrap(o) == o[1]

NL == "\n"
DQ == "\""
SQ == "'"
BS == "\\"
SP == " "
GT == ">"
AMP == "&"
DOLLAR == "$"

Digits == {"0", "1", "2", "3", "4", "5", "6", "7", "8", "9"}

\* char::is_ascii_digit
IsAsciiDigit(c) == c \in Digits

\* char::is_whitespace, on the characters of the model
IsWhitespace(c) == c \in {SP, NL}

\* token.chars().all(|x| x.is_ascii_digit())
AllDigits(s) == \A i \in 1..Len(s) : IsAsciiDigit(s[i])

----------------------------------------------------------------------------
(* LineTokenIter::next, src/src/main.rs 49-103 *)

\* IsFdPrefix without the `&` of line 78
IsFdPrefixDigitsOnly(tok) == AllDigits(tok)

\* line 78: the in-progress token is a file-descriptor prefix of the redirection
IsFdPrefix(tok) == AllDigits(tok) \/ tok = <<AMP>>

\* lines 55-58 with `'` closing a double-quoted run and `"` a single-quoted one as well
ToggleQuoteAnyQuote(ch, q) ==
    IF ch \in {DQ, SQ} THEN Some(IF q = "None" THEN (IF ch = DQ THEN "Double" ELSE "Single")
                                 ELSE "None")
    ELSE None

\* lines 55-58: the quote state a quote character switches to, None when the character
\* met in the state q is no such character
ToggleQuote(ch, q) ==
    CASE ch = DQ /\ q = "Double" -> Some("None")
      [] ch = DQ /\ q = "None" -> Some("Double")
      [] ch = SQ /\ q = "Single" -> Some("None")
      [] ch = SQ /\ q = "None" -> Some("Single")
      [] OTHER -> None

\* line 65 without the `$`
EscapableInDoubleNoDollar == {BS, DQ, NL}

\* line 65: the characters a backslash unescapes in DoubleQuoted state
EscapableInDouble == {BS, DOLLAR, DQ, NL}

\* the state a call of next() starts in: `token` empty, `quote` None
LexStart(cs, redir) ==
    [chars |-> cs, redirection |-> redir, token |-> <<>>, quote |-> "None", ctl |-> "loop"]

\* One iteration of `while let Some(ch) = self.chars.next()`: the match on (ch, &quote).
\* st.chars is not empty.
LexChar(st) ==
    LET ch == Head(st.chars)
        rest == Tail(st.chars)
        q == st.quote
        adv == [st EXCEPT !.chars = rest]
    IN  CASE IsSome(ToggleQuote(ch, q)) -> [adv EXCEPT !.quote = Unwrap(ToggleQuote(ch, q))]
          [] ch = BS /\ q = "None" ->
                IF rest # <<>>
                THEN [adv EXCEPT !.token = Append(st.token, Head(rest)), !.chars = Tail(rest)]
                ELSE [adv EXCEPT !.ctl = "panic"]
          [] ch = BS /\ q = "Double" ->
                IF rest # <<>>
                THEN IF Head(rest) \in EscapableInDouble
                     THEN [adv EXCEPT !.token = Append(st.token, Head(rest)),
                                      !.chars = Tail(rest)]
                     ELSE [adv EXCEPT !.token = Append(st.token, BS)]
                ELSE [adv EXCEPT !.ctl = "panic"]
          [] OTHER ->
                IF ch \in {SP, NL} /\ q = "None" /\ Len(st.token) > 0
                THEN [adv EXCEPT !.ctl = "break"]
                ELSE IF ch = SP /\ Len(st.token) = 0
                THEN adv
                ELSE IF ch = GT /\ q = "None"
                THEN IF Len(st.token) > 0
                     THEN IF IsFdPrefix(st.token)
                          THEN [adv EXCEPT !.chars = <<>>,
                                           !.token = st.token \o <<GT>> \o rest,
                                           !.redirection = Some(st.token \o <<GT>> \o rest),
                                           !.ctl = "return_none"]
                          ELSE [adv EXCEPT !.chars = <<>>,
                                           !.redirection = Some(<<GT>> \o rest),
                                           !.ctl = "break"]
                     ELSE [adv EXCEPT !.chars = <<>>,
                                      !.redirection = Some(<<GT>> \o rest),
                                      !.ctl = "break"]
                ELSE [adv EXCEPT !.token = Append(st.token, ch)]

\* the value next() returns once its loop has stopped (lines 82 and 98-102)
LexItem(st) ==
    IF st.ctl = "return_none" THEN None
    ELSE IF Len(st.token) > 0 THEN Some(st.token) ELSE None

\* the loop of next() has stopped: by break, return or panic, or self.chars.next() gave None
LexStopped(st) == st.ctl # "loop" \/ st.chars = <<>>

----------------------------------------------------------------------------
(* Redirection::parse, src/src/redirection.rs 24-69 *)

\* peeking_take_while(|x| x.is_ascii_digit()).collect(): the digit run, nothing else consumed
RECURSIVE TakeDigits(_)
TakeDigits(cs) ==
    IF cs # <<>> /\ IsAsciiDigit(Head(cs))
    THEN LET r == TakeDigits(Tail(cs)) IN [taken |-> <<Head(cs)>> \o r.taken, chars |-> r.chars]
    ELSE [taken |-> <<>>, chars |-> cs]

RECURSIVE StripZeros(_)
StripZeros(ds) == IF ds # <<>> /\ Head(ds) = "0" THEN StripZeros(Tail(ds)) ELSE ds

DigitVal(c) ==
    CASE c = "0" -> 0 [] c = "1" -> 1 [] c = "2" -> 2 [] c = "3" -> 3 [] c = "4" -> 4
      [] c = "5" -> 5 [] c = "6" -> 6 [] c = "7" -> 7 [] c = "8" -> 8 [] c = "9" -> 9

\* u32::MAX, 4294967295, in decimal digits
U32MaxDigits == <<"4", "2", "9", "4", "9", "6", "7", "2", "9", "5">>

\* a > b for two digit strings of the same length
RECURSIVE DecGreater(_, _)
DecGreater(a, b) ==
    IF a = <<>> THEN FALSE
    ELSE IF DigitVal(Head(a)) # DigitVal(Head(b)) THEN DigitVal(Head(a)) > DigitVal(Head(b))
    ELSE DecGreater(Tail(a), Tail(b))

\* n_str.parse::<u32>() on a non-empty digit run: Some(n) with n the number in decimal digits
\* without leading zeros (<<>> is 0), None (an Err) when the number does not fit 32 bits
ParseU32(ds) ==
    LET n == StripZeros(ds)
    IN  IF \/ Len(n) > Len(U32MaxDigits)
           \/ Len(n) = Len(U32MaxDigits) /\ DecGreater(n, U32MaxDigits)
        THEN None
        ELSE Some(n)

\* lines 29-51: the source prefix. to: "mode" (go on), "ret_source" (return None at line 48),
\* "panic" (unwrap of an Err at line 42)
SourceStage(cs) ==
    IF Head(cs) = AMP
    THEN [to |-> "mode", source |-> "Both", chars |-> Tail(cs)]
    ELSE LET d == TakeDigits(cs)
             go(src) == [to |-> "mode", source |-> src, chars |-> d.chars]
         IN  IF Len(d.taken) > 0
             THEN LET n == ParseU32(d.taken)
                  IN  IF ~IsSome(n) THEN [to |-> "panic", source |-> "Stdout", chars |-> d.chars]
                      ELSE IF Unwrap(n) = <<>> \/ Unwrap(n) = <<"1">> THEN go("Stdout")
                      ELSE IF Unwrap(n) = <<"2">> THEN go("Stderr")
                      ELSE [to |-> "ret_source", source |-> "Stdout", chars |-> d.chars]
             ELSE go("Stdout")

\* line 53: chars.by_ref().take_while(|x| *x == '>').count(): take_while has taken the first
\* character it rejects out of `chars` as well
RECURSIVE TakeWhileGt(_)
TakeWhileGt(cs) ==
    IF cs = <<>> THEN [count |-> 0, chars |-> <<>>]
    ELSE IF Head(cs) = GT
    THEN LET r == TakeWhileGt(Tail(cs)) IN [count |-> r.count + 1, chars |-> r.chars]
    ELSE [count |-> 0, chars |-> Tail(cs)]

\* ModeOf with `_` in the place of the 2 of line 57
ModeOfAnyRun(n_lt) ==
    CASE n_lt = 1 -> Some("Write")
      [] n_lt = 0 -> None
      [] OTHER -> Some("Append")

\* ModeOf with a run of three `>` taken for an append as well
ModeOfTripleAppends(n_lt) ==
    CASE n_lt = 1 -> Some("Write")
      [] n_lt \in {2, 3} -> Some("Append")
      [] OTHER -> None

\* lines 55-59
ModeOf(n_lt) ==
    CASE n_lt = 1 -> Some("Write")
      [] n_lt = 2 -> Some("Append")
      [] OTHER -> None

RECURSIVE SkipWhitespace(_)
SkipWhitespace(cs) ==
    IF cs # <<>> /\ IsWhitespace(Head(cs)) THEN SkipWhitespace(Tail(cs)) ELSE cs

RECURSIVE TakeNonWhitespace(_)
TakeNonWhitespace(cs) ==
    IF cs # <<>> /\ ~IsWhitespace(Head(cs))
    THEN <<Head(cs)>> \o TakeNonWhitespace(Tail(cs))
    ELSE <<>>

\* lines 64-67
TargetOf(cs) == TakeNonWhitespace(SkipWhitespace(cs))

\* lines 53-68: the mode and the target
ModeStage(source, cs) ==
    LET t == TakeWhileGt(cs)
        mode == ModeOf(t.count)
    IN  IF IsSome(mode)
        THEN [to |-> "ret_some",
              result |-> Some([source |-> source, mode |-> Unwrap(mode),
                               target |-> TargetOf(t.chars)])]
        ELSE [to |-> "ret_mode", result |-> None]

\* Redirection::parse as one function: [panic, result]
RedirectionParse(value) ==
    IF Len(value) = 0 THEN [panic |-> FALSE, result |-> None]
    ELSE LET s == SourceStage(value)
         IN  IF s.to = "panic" THEN [panic |-> TRUE, result |-> None]
             ELSE IF s.to = "ret_source" THEN [panic |-> FALSE, result |-> None]
             ELSE [panic |-> FALSE, result |-> ModeStage(s.source, s.chars).result]

----------------------------------------------------------------------------
(* CommandOutput, CommandWriter: src/src/main.rs 217-285 *)

Sinks == {"Stdout", "Stderr"}

\* lines 230-239: the inherited stream each writer holds as `handle`
SinkHandle(sink) == IF sink = "Stdout" THEN "stdout" ELSE "stderr"

\* matches_source with Both matching the stdout writer only
MatchesSourceBothStdout(sink, src) ==
    CASE src = "Stdout" -> sink = "Stdout"
      [] src = "Stderr" -> sink = "Stderr"
      [] src = "Both" -> sink = "Stdout"

\* lines 250-256
MatchesSource(sink, src) ==
    CASE src = "Stdout" -> sink = "Stdout"
      [] src = "Stderr" -> sink = "Stderr"
      [] src = "Both" -> TRUE

\* lines 269-273 and 278-282: the match of write and of flush
Dest(rd, sink) ==
    IF IsSome(rd) /\ MatchesSource(sink, Unwrap(rd).source)
    THEN "file"
    ELSE SinkHandle(sink)

\* file.borrow_mut(): None is the panic of an already borrowed RefCell
BorrowMut(h) == IF h.borrowed THEN None ELSE Some([h EXCEPT !.borrowed = TRUE])

\* a RefMut that is never dropped
DropRefMutLeaked(h) == h

\* the RefMut of lines 271 and 280 is a temporary, dropped when the statement ends
DropRefMut(h) == [h EXCEPT !.borrowed = FALSE]

\* File::write on a file opened with append(true) (O_APPEND) or with write(true) alone:
\* the first writes at the end, the second at the handle's position, over what is there
FileWrite(bytes, pos, append, buf) ==
    IF append
    THEN [bytes |-> bytes \o buf, pos |-> Len(bytes) + Len(buf)]
    ELSE [bytes |-> SubSeq(bytes, 1, pos) \o buf
                    \o SubSeq(bytes, pos + Len(buf) + 1, Len(bytes)),
          pos |-> pos + Len(buf)]

\* write(buf) or flush() is called on the writer `sink`: the match picks the target, and
\* the file is borrowed for the call
SinkCall(sink, op, buf) ==
    /\ call = None
    /\ LET dest == Dest(outRedirect, sink)
       IN  IF dest = "file"
           THEN IF IsSome(BorrowMut(handle))
                THEN /\ handle' = Unwrap(BorrowMut(handle))
                     /\ call' = Some([sink |-> sink, op |-> op, buf |-> buf, dest |-> dest])
                     /\ pc' = pc
                ELSE /\ pc' = "panicked"
                     /\ UNCHANGED <<handle, call>>
           ELSE /\ call' = Some([sink |-> sink, op |-> op, buf |-> buf, dest |-> dest])
                /\ UNCHANGED <<handle, pc>>
    /\ UNCHANGED <<outRedirect, fs, stdoutBytes, stderrBytes, callLog>>

\* the call in progress reaches its target and returns: Ok (the bytes of a write are in
\* the target) or Err (nothing is)
SinkReturn(ok) ==
    /\ IsSome(call)
    /\ LET c == Unwrap(call)
           target == Unwrap(outRedirect).target
           w == FileWrite(fs[target].bytes, handle.pos,
                          Unwrap(outRedirect).mode = "Append", c.buf)
           wrote == ok /\ c.op = "write"
       IN  /\ IF c.dest = "file"
              THEN /\ fs' = IF wrote THEN [fs EXCEPT ![target].bytes = w.bytes] ELSE fs
                   /\ handle' = DropRefMut(IF wrote THEN [handle EXCEPT !.pos = w.pos]
                                           ELSE handle)
              ELSE UNCHANGED <<fs, handle>>
           /\ stdoutBytes' = IF c.dest = "stdout" /\ wrote THEN stdoutBytes \o c.buf
                             ELSE stdoutBytes
           /\ stderrBytes' = IF c.dest = "stderr" /\ wrote THEN stderrBytes \o c.buf
                             ELSE stderrBytes
           /\ callLog' = Append(callLog, [sink |-> c.sink, op |-> c.op, buf |-> c.buf,
                                          dest |-> c.dest, ok |-> ok])
    /\ call' = None
    /\ UNCHANGED <<outRedirect>>

----------------------------------------------------------------------------
(* InputCommand::parse, src/src/main.rs 142-189 *)

\* a call of next() run to its end
RECURSIVE LexRun(_)
LexRun(st) == IF LexStopped(st) THEN st ELSE LexRun(LexChar(st))

\* lines 145-150: next() called until it returns None; the items, in order
RECURSIVE LexCollect(_, _, _)
LexCollect(cs, redir, acc) ==
    LET st == LexRun(LexStart(cs, redir))
    IN  IF st.ctl = "panic"
        THEN [panic |-> TRUE, items |-> acc, redirection |-> st.redirection]
        ELSE IF IsSome(LexItem(st))
        THEN LexCollect(st.chars, st.redirection, Append(acc, Unwrap(LexItem(st))))
        ELSE [panic |-> FALSE, items |-> acc, redirection |-> st.redirection]

wExit == <<"e", "x", "i", "t">>
wEcho == <<"e", "c", "h", "o">>
wType == <<"t", "y", "p", "e">>
wPwd == <<"p", "w", "d">>
wCd == <<"c", "d">>

\* i32::MAX, 2147483647, and the magnitude of i32::MIN, in decimal digits
I32MaxDigits == <<"2", "1", "4", "7", "4", "8", "3", "6", "4", "7">>
I32MinDigits == <<"2", "1", "4", "7", "4", "8", "3", "6", "4", "8">>

\* the number a digit string stands for, negated: it fits 32 bits whenever ParseI32 asks
RECURSIVE NegValue(_, _)
NegValue(ds, acc) == IF ds = <<>> THEN acc ELSE NegValue(Tail(ds), acc * 10 - DigitVal(Head(ds)))

\* rest[0].parse::<i32>(): an optional sign, then digits; None is the Err
ParseI32(tok) ==
    LET signed == tok # <<>> /\ Head(tok) \in {"+", "-"}
        neg == tok # <<>> /\ Head(tok) = "-"
        ds == IF signed THEN Tail(tok) ELSE tok
        n == StripZeros(ds)
        limit == IF neg THEN I32MinDigits ELSE I32MaxDigits
    IN  IF ds = <<>> \/ ~AllDigits(ds) THEN None
        ELSE IF Len(n) > Len(limit) \/ (Len(n) = Len(limit) /\ DecGreater(n, limit)) THEN None
        ELSE IF neg THEN Some(NegValue(n, 0))
        ELSE IF n = I32MaxDigits THEN Some(2147483647)
        ELSE Some(0 - NegValue(n, 0))

DefaultExitCode == 127

NoCommand == [kind |-> "None", code |-> 0, name |-> <<>>, args |-> <<>>, path |-> None]

\* BuildCommand with a `cd` that takes its first argument and ignores the others
BuildCommandCdFirstArg(name, rest) ==
    LET ok(c) == [err |-> None, command |-> c]
        bail(msg) == [err |-> Some(msg), command |-> NoCommand]
    IN  CASE name = wExit ->
                IF Len(rest) = 0 THEN ok([NoCommand EXCEPT !.kind = "Exit", !.code = DefaultExitCode])
                ELSE IF Len(rest) = 1
                THEN IF IsSome(ParseI32(rest[1]))
                     THEN ok([NoCommand EXCEPT !.kind = "Exit", !.code = Unwrap(ParseI32(rest[1]))])
                     ELSE bail("invalid digit found in string")
                ELSE bail("Too many arguments (expected 2")
          [] name = wEcho -> ok([NoCommand EXCEPT !.kind = "Echo", !.args = rest])
          [] name = wType -> ok([NoCommand EXCEPT !.kind = "Type", !.args = rest])
          [] name = wPwd ->
                IF Len(rest) # 0 THEN bail("pwd: expected 0 arguments; got n")
                ELSE ok([NoCommand EXCEPT !.kind = "Pwd"])
          [] name = wCd ->
                IF Len(rest) = 0 THEN ok([NoCommand EXCEPT !.kind = "Cd"])
                ELSE ok([NoCommand EXCEPT !.kind = "Cd", !.path = Some(rest[1])])
          [] OTHER -> ok([NoCommand EXCEPT !.kind = "NotFound", !.name = name, !.args = rest])

\* lines 152-183: err is Some(message) where the code bails
BuildCommand(name, rest) ==
    LET ok(c) == [err |-> None, command |-> c]
        bail(msg) == [err |-> Some(msg), command |-> NoCommand]
    IN  CASE name = wExit ->
                IF Len(rest) = 0 THEN ok([NoCommand EXCEPT !.kind = "Exit", !.code = DefaultExitCode])
                ELSE IF Len(rest) = 1
                THEN IF IsSome(ParseI32(rest[1]))
                     THEN ok([NoCommand EXCEPT !.kind = "Exit", !.code = Unwrap(ParseI32(rest[1]))])
                     ELSE bail("invalid digit found in string")
                ELSE bail("Too many arguments (expected 2")
          [] name = wEcho -> ok([NoCommand EXCEPT !.kind = "Echo", !.args = rest])
          [] name = wType -> ok([NoCommand EXCEPT !.kind = "Type", !.args = rest])
          [] name = wPwd ->
                IF Len(rest) # 0 THEN bail("pwd: expected 0 arguments; got n")
                ELSE ok([NoCommand EXCEPT !.kind = "Pwd"])
          [] name = wCd ->
                IF Len(rest) = 0 THEN ok([NoCommand EXCEPT !.kind = "Cd"])
                ELSE IF Len(rest) = 1
                THEN ok([NoCommand EXCEPT !.kind = "Cd", !.path = Some(rest[1])])
                ELSE bail("Too many arguments for cd command")
          [] OTHER -> ok([NoCommand EXCEPT !.kind = "NotFound", !.name = name, !.args = rest])

\* InputCommand::parse: outcome "Ok", "Err" (an anyhow error) or "Panic"
InputCommandParse(l) ==
    LET all == LexCollect(l, None, <<>>)
        res(o, c, r, e) == [outcome |-> o, command |-> c, redirect |-> r, err |-> e]
    IN  IF all.panic THEN res("Panic", NoCommand, None, "lex")
        ELSE IF all.items = <<>> THEN res("Err", NoCommand, None, "Line is empty")
        ELSE LET b == BuildCommand(Head(all.items), Tail(all.items))
             IN  IF IsSome(b.err) THEN res("Err", NoCommand, None, Unwrap(b.err))
                 ELSE IF ~IsSome(all.redirection) THEN res("Ok", b.command, None, "")
                 ELSE LET r == RedirectionParse(Unwrap(all.redirection))
                      IN  IF r.panic THEN res("Panic", NoCommand, None, "redirect_parse")
                          ELSE res("Ok", b.command, r.result, "")

----------------------------------------------------------------------------
(* The environment: paths, PATH lookup, spawned processes *)

Root == <<"/">>

\* a path as the process sees it from the working directory d
Resolve(d, p) ==
    IF p # <<>> /\ Head(p) = "/" THEN p
    ELSE IF d = Root THEN d \o p
    ELSE d \o <<"/">> \o p

Exists(f, p) == p \in DOMAIN f

\* the names EnvPaths::expand finds a regular file for (lines 299-312)
Executables == {<<"x">>}

ExpandPath(name) == IF name \in Executables THEN Some(<<"/bin/">> \o name) ELSE None

\* what process::Command::output() gives: Err, or the captured stdout and stderr
SpawnResults ==
    {None, Some([stdout |-> <<>>, stderr |-> <<>>]), Some([stdout |-> <<"o">>, stderr |-> <<"e">>])}

\* lines 117-133
IsBuiltin(name) == name \in {wExit, wEcho, wType, wPwd, wCd}

RECURSIVE TrimStart(_)
TrimStart(l) == IF l # <<>> /\ IsWhitespace(Head(l)) THEN TrimStart(Tail(l)) ELSE l

RECURSIVE TrimEnd(_)
TrimEnd(l) ==
    IF l # <<>> /\ IsWhitespace(l[Len(l)]) THEN TrimEnd(SubSeq(l, 1, Len(l) - 1)) ELSE l

\* str::trim
Trim(l) == TrimEnd(TrimStart(l))

----------------------------------------------------------------------------
(* The commands of main, src/src/main.rs 344-422: the output calls each makes *)

\* one write call on a CommandWriter
W(sink, buf) == [sink |-> sink, op |-> "write", buf |-> buf]

\* write_all, as write! and writeln! call it for each piece of the format: no call for an
\* empty piece
WriteAll(sink, buf) == IF buf = <<>> THEN <<>> ELSE <<W(sink, buf)>>

\* line 357: io::stdout().flush(), on the inherited stdout itself
FlushStdout == [sink |-> "direct", op |-> "flush", buf |-> <<>>]

\* lines 349-358
RECURSIVE EchoLoop(_, _)
EchoLoop(vec, i) ==
    IF i > Len(vec) THEN <<>>
    ELSE WriteAll("Stdout", IF i # 1 THEN <<SP>> \o vec[i] ELSE vec[i])
         \o <<FlushStdout>> \o EchoLoop(vec, i + 1)

\* EchoOps without the test of line 360
EchoOpsBlankLine(vec) == EchoLoop(vec, 1) \o WriteAll("Stdout", <<NL>>)

\* lines 348-363
EchoOps(vec) ==
    EchoLoop(vec, 1) \o (IF Len(vec) > 0 THEN WriteAll("Stdout", <<NL>>) ELSE <<>>)

\* lines 364-377
RECURSIVE TypeOps(_)
TypeOps(vec) ==
    IF vec = <<>> THEN <<>>
    ELSE LET name == Head(vec)
         IN  (IF IsBuiltin(name)
              THEN WriteAll("Stdout", name) \o WriteAll("Stdout", <<" is a shell builtin", NL>>)
              ELSE IF IsSome(ExpandPath(name))
              THEN WriteAll("Stdout", name) \o WriteAll("Stdout", <<" is ">>)
                   \o WriteAll("Stdout", Unwrap(ExpandPath(name))) \o WriteAll("Stdout", <<NL>>)
              ELSE WriteAll("Stderr", name) \o WriteAll("Stderr", <<": not found", NL>>))
             \o TypeOps(Tail(vec))

\* lines 378-381: ok is whether env::current_dir() succeeds
PwdOps(dir, ok) ==
    IF ok THEN WriteAll("Stdout", dir) \o WriteAll("Stdout", <<NL>>)
    ELSE WriteAll("Stderr", <<"pwd: ">>) \o WriteAll("Stderr", <<"os error">>)
         \o WriteAll("Stderr", <<NL>>)

\* lines 382-406: what cd does with Some(path): the calls it makes, the directory it
\* enters (Option), and whether the unwrap of set_current_dir panics
CdEffect(path, d, f, h) ==
    LET eff(ops, to, panic) == [ops |-> ops, chdir |-> to, panic |-> panic]
        tilde == path = <<"~">>
        p == IF tilde /\ IsSome(h) THEN Unwrap(h) ELSE path
        abs == Resolve(d, p)
    IN  IF tilde /\ ~IsSome(h)
        THEN eff(WriteAll("Stderr", <<"cd: ~: home dir is not available", NL>>), None, FALSE)
        ELSE IF ~Exists(f, abs)
        THEN eff(WriteAll("Stderr", <<"cd: ">>) \o WriteAll("Stderr", p)
                 \o WriteAll("Stderr", <<": No such file or directory", NL>>), None, FALSE)
        ELSE IF f[abs].kind = "dir" THEN eff(<<>>, Some(abs), FALSE)
        ELSE eff(<<>>, None, TRUE)

\* lines 407-421: spawned is what output() gave, when the name is found on PATH
NotFoundOps(name, spawned, l) ==
    IF IsSome(ExpandPath(name))
    THEN IF IsSome(spawned)
         THEN <<W("Stdout", Unwrap(spawned).stdout), W("Stderr", Unwrap(spawned).stderr)>>
         ELSE WriteAll("Stderr", Unwrap(ExpandPath(name)))
              \o WriteAll("Stderr", <<": Failed to execute command", NL>>)
    ELSE WriteAll("Stderr", Trim(l)) \o WriteAll("Stderr", <<": command not found", NL>>)

----------------------------------------------------------------------------
(* The lexer stepped on every short line: SpecLex *)

LexAlphabet == {"a", "1", SP, DQ, SQ, BS, GT, AMP, DOLLAR}

RECURSIVE SeqsUpTo(_, _)
SeqsUpTo(S, n) ==
    IF n = 0 THEN {<<>>}
    ELSE LET shorter == SeqsUpTo(S, n - 1)
         IN  shorter \cup {Append(s, c) : s \in {t \in shorter : Len(t) = n - 1}, c \in S}

\* read_line leaves the line terminator at the end of the line, and only there; the last
\* line of the input may lack it
LexLines ==
    LET bodies == SeqsUpTo(LexAlphabet, MaxBodyLen)
    IN  bodies \cup {Append(b, NL) : b \in bodies}

LexState == [chars |-> chars, redirection |-> redirection, token |-> token,
             quote |-> quote, ctl |-> ctl]

\* Redirection::parse is not running
RedirIdle ==
    /\ raw = <<>>
    /\ rpc = "idle"
    /\ rchars = <<>>
    /\ rsource = "Stdout"
    /\ rresult = None

\* LineTokenIter is not running
LexIdle ==
    /\ line = <<>>
    /\ chars = <<>>
    /\ redirection = None
    /\ token = <<>>
    /\ quote = "None"
    /\ ctl = "idle"
    /\ items = <<>>

\* no CommandOutput exists
RouterIdle ==
    /\ outRedirect = None
    /\ handle = [pos |-> 0, borrowed |-> FALSE]
    /\ fs = <<>>
    /\ stdoutBytes = <<>>
    /\ stderrBytes = <<>>
    /\ call = None
    /\ callLog = <<>>
    /\ pc = "idle"

\* main is not running
MainIdle ==
    /\ input = None
    /\ command = None
    /\ redirect = None
    /\ pending = <<>>
    /\ cwd = <<>>
    /\ home = None
    /\ stdinEof = FALSE
    /\ nread = 0
    /\ exitCode = None
    /\ ended = ""

InitLex ==
    /\ line \in LexLines
    /\ chars = line
    /\ redirection = None
    /\ token = <<>>
    /\ quote = "None"
    /\ ctl = "loop"
    /\ items = <<>>
    /\ RedirIdle
    /\ RouterIdle
    /\ MainIdle

\* one iteration of the loop of next()
LexStep ==
    /\ ctl = "loop"
    /\ chars # <<>>
    /\ LET st == LexChar(LexState)
       IN  /\ chars' = st.chars
           /\ redirection' = st.redirection
           /\ token' = st.token
           /\ quote' = st.quote
           /\ ctl' = st.ctl
    /\ UNCHANGED <<line, items, redirVars, routerVars, mainVars>>

\* next() returns Some(token): the caller (parse, lines 145 and 150) takes it and calls
\* next() again
LexReturnSome ==
    /\ ctl \in {"loop", "break", "return_none"}
    /\ LexStopped(LexState)
    /\ IsSome(LexItem(LexState))
    /\ items' = Append(items, Unwrap(LexItem(LexState)))
    /\ token' = <<>>
    /\ quote' = "None"
    /\ ctl' = "loop"
    /\ UNCHANGED <<line, chars, redirection, redirVars, routerVars, mainVars>>

\* next() returns None: the caller stops asking (bail at line 147, or collect at 150 ends)
LexReturnNone ==
    /\ ctl \in {"loop", "break", "return_none"}
    /\ LexStopped(LexState)
    /\ ~IsSome(LexItem(LexState))
    /\ ctl' = "done"
    /\ UNCHANGED <<line, chars, redirection, token, quote, items, redirVars,
                   routerVars, mainVars>>

NextLex == LexStep \/ LexReturnSome \/ LexReturnNone

SpecLex == InitLex /\ [][NextLex]_vars

----------------------------------------------------------------------------
(* Redirection::parse stepped on raw redirection strings: SpecRedir *)

RECURSIVE Rep(_, _)
Rep(c, n) == IF n = 0 THEN <<>> ELSE <<c>> \o Rep(c, n - 1)

\* file-descriptor numbers, among them the two around u32::MAX
FdNumbers ==
    {<<>>, <<"1">>, <<"2">>, <<"3">>, <<"1", "2">>, U32MaxDigits,
     <<"4", "2", "9", "4", "9", "6", "7", "2", "9", "6">>,
     <<"9", "9", "9", "9", "9", "9", "9", "9", "9", "9", "9">>}

RawPrefixes ==
    {<<>>, <<AMP>>, <<AMP, "1">>}
    \cup {Rep("0", k) \o n : k \in 0..MaxZeros, n \in FdNumbers}

RawTargets == SeqsUpTo({"a", "b"}, MaxTargetLen)

RawTrailers == {<<>>, <<NL>>, <<SP, "c">>, <<SP, "c", NL>>}

\* every &str is an argument of the public parse; the lexer hands it the ones that start
\* with an optional prefix (digits, or `&`) and at least one `>`
RawInputs ==
    {p \o Rep(GT, g) \o Rep(SP, w) \o t \o e :
        p \in RawPrefixes, g \in 0..MaxGt, w \in 0..MaxWs, t \in RawTargets, e \in RawTrailers}

InitRedir ==
    /\ raw \in RawInputs
    /\ rpc = "start"
    /\ rchars = raw
    /\ rsource = "Stdout"
    /\ rresult = None
    /\ LexIdle
    /\ RouterIdle
    /\ MainIdle

\* lines 25-27
RedirEmpty ==
    /\ rpc = "start"
    /\ rpc' = IF Len(raw) = 0 THEN "ret_empty" ELSE "source"
    /\ UNCHANGED <<raw, rchars, rsource, rresult, lexVars, routerVars, mainVars>>

\* lines 29-51
RedirSource ==
    /\ rpc = "source"
    /\ LET s == SourceStage(rchars)
       IN  /\ rpc' = s.to
           /\ rsource' = s.source
           /\ rchars' = s.chars
    /\ UNCHANGED <<raw, rresult, lexVars, routerVars, mainVars>>

\* lines 53-68
RedirMode ==
    /\ rpc = "mode"
    /\ LET m == ModeStage(rsource, rchars)
       IN  /\ rpc' = m.to
           /\ rresult' = m.result
    /\ rchars' = <<>>
    /\ UNCHANGED <<raw, rsource, lexVars, routerVars, mainVars>>

NextRedir == RedirEmpty \/ RedirSource \/ RedirMode

SpecRedir == InitRedir /\ [][NextRedir]_vars

\* the raw strings LineTokenIter hands over (lines 79-90): a prefix that is empty, a digit
\* run or `&`, then `>`, then the rest of the line
LexedRawInputs ==
    {r \in RawInputs :
        \E k \in 0..(Len(r) - 1) :
            /\ r[k + 1] = GT
            /\ IsFdPrefix(SubSeq(r, 1, k))}

InitRedirLexed ==
    /\ InitRedir
    /\ raw \in LexedRawInputs

SpecRedirLexed == InitRedirLexed /\ [][NextRedir]_vars

----------------------------------------------------------------------------
(* The read-eval loop of main, src/src/main.rs 315-424: Spec *)

RECURSIVE JoinWords(_)
JoinWords(ws) ==
    IF ws = <<>> THEN <<>>
    ELSE IF Len(ws) = 1 THEN Head(ws)
    ELSE Head(ws) \o <<SP>> \o JoinWords(Tail(ws))

\* the builtins whose argument list has any length, with up to MaxArgs arguments
ListCommands ==
    {<<wEcho>> \o a : a \in SeqsUpTo({<<"a">>, <<"b">>}, MaxArgs)}
    \cup {<<wType>> \o a : a \in SeqsUpTo({wEcho, <<"x">>, <<"y">>}, MaxArgs)}

\* the other commands: each arity the builtin tells apart, the external command x, the
\* unknown command y
FixedCommands ==
    {<<wExit>>, <<wExit, <<"3">>>>, <<wExit, <<"a">>>>, <<wExit, <<"3">>, <<"3">>>>,
     <<wPwd>>, <<wPwd, <<"a">>>>,
     <<wCd>>, <<wCd, <<"~">>>>, <<wCd, <<"d">>>>, <<wCd, <<"f">>>>, <<wCd, <<"n">>>>,
     <<wCd, <<"d">>, <<"d">>>>,
     << <<"x">> >>, << <<"x">>, <<"a">> >>, << <<"y">> >>}

TypedCommands == ListCommands \cup FixedCommands

\* the commands typed with a redirection after them
RedirectedCommands ==
    {<<wEcho>>, <<wEcho, <<"a">>>>, <<wEcho, <<"a">>, <<"b">>>>,
     <<wType, wEcho, <<"y">>>>,
     <<wExit>>, <<wExit, <<"a">>>>, <<wExit, <<"3">>, <<"3">>>>,
     <<wPwd>>, <<wPwd, <<"a">>>>,
     <<wCd, <<"d">>>>, <<wCd, <<"n">>>>, <<wCd, <<"d">>, <<"d">>>>,
     << <<"x">> >>, << <<"y">> >>}

\* the redirections typed
TypedRedirections ==
    {<<GT, "f">>, <<GT, SP, "d">>, <<GT, GT, GT, SP, "f">>, <<"3", GT, SP, "f">>,
     <<"4", "2", "9", "4", "9", "6", "7", "2", "9", "6", GT, SP, "f">>}
    \cup {p \o g \o <<SP, "f">> : p \in {<<>>, <<"2">>, <<AMP>>}, g \in {<<GT>>, <<GT, GT>>}}

\* how a typed line ends: with its terminator, with a space before it, or with the end of
\* the input
LineEndings == {<<NL>>, <<SP, NL>>, <<>>}

\* lines that are not a command followed by a redirection
OtherLines ==
    {<<NL>>, <<SP, NL>>,
     wEcho \o <<SP, "a", BS>>, wEcho \o <<SP, "a", BS, NL>>,
     wEcho \o <<SP, DQ, "a", BS>>, wEcho \o <<SP, DQ, SP, "a", DQ, NL>>,
     wEcho \o <<SP, "a", GT, "f", NL>>}

CmdLines ==
    {JoinWords(c) \o e : c \in TypedCommands, e \in LineEndings}
    \cup {JoinWords(c) \o <<SP>> \o r \o <<NL>> : c \in RedirectedCommands,
                                                  r \in TypedRedirections}
    \cup OtherLines

\* InputCommand::parse on each line main may read
ParseOf == [l \in CmdLines \cup {<<>>} |-> InputCommandParse(l)]

\* the files and directories main may start with, in any of which it may be started
InitialFiles ==
    LET dirs == (Root :> [kind |-> "dir", bytes |-> <<>>])
                @@ (<<"/", "d">> :> [kind |-> "dir", bytes |-> <<>>])
    IN  {dirs, dirs @@ (<<"/", "f">> :> [kind |-> "file", bytes |-> <<"x", "y", "z", "w">>])}

Init ==
    /\ pc = "prompt"
    /\ input = None
    /\ command = None
    /\ redirect = None
    /\ pending = <<>>
    /\ cwd \in {Root, <<"/", "d">>}
    /\ home \in {None, Some(<<"/", "d">>)}
    /\ stdinEof = FALSE
    /\ nread = 0
    /\ exitCode = None
    /\ ended = ""
    /\ outRedirect = None
    /\ handle = [pos |-> 0, borrowed |-> FALSE]
    /\ fs \in InitialFiles
    /\ stdoutBytes = <<>>
    /\ stderrBytes = <<>>
    /\ call = None
    /\ callLog = <<>>
    /\ LexIdle
    /\ RedirIdle

\* lines 322-323: the prompt. stdoutBytes, stderrBytes and callLog start anew with each
\* iteration of the loop.
Prompt ==
    /\ pc = "prompt"
    /\ pc' = "read"
    /\ stdoutBytes' = <<"$ ">>
    /\ stderrBytes' = <<>>
    /\ callLog' = <<>>
    /\ input' = None
    /\ command' = None
    /\ redirect' = None
    /\ UNCHANGED <<pending, cwd, home, stdinEof, nread, exitCode, ended, outRedirect, handle,
                   fs, call, lexVars, redirVars>>

\* lines 326-335 once read_line has given the line l (<<>> at end-of-input):
\* InputCommand::parse, and the diagnostic of its Err
Read(l) ==
    /\ pc = "read"
    /\ nread < MaxReads
    /\ nread' = nread + 1
    /\ input' = Some(l)
    /\ stdinEof' = (l = <<>> \/ l[Len(l)] # NL)
    /\ \E r \in {ParseOf[l]} :
           /\ command' = IF r.outcome = "Ok" THEN Some(r.command) ELSE None
           /\ redirect' = r.redirect
           /\ pc' = CASE r.outcome = "Ok" -> "out"
                      [] r.outcome = "Err" -> "prompt"
                      [] r.outcome = "Panic" -> "panicked"
           /\ ended' = IF r.outcome = "Panic" THEN r.err ELSE ended
           /\ stdoutBytes' = stdoutBytes
                             \o (IF r.outcome = "Err" THEN <<r.err, NL>> ELSE <<>>)
    /\ UNCHANGED <<pending, cwd, home, exitCode, outRedirect, handle, fs, stderrBytes, call,
                   callLog, lexVars, redirVars>>

\* read_line gives a line of the input
ReadLine ==
    /\ ~stdinEof
    /\ \E l \in CmdLines : Read(l)

\* read_line gives Ok(0): the input is at its end
ReadEof == Read(<<>>)

\* read_line gives an Err, which line 327 unwraps
ReadFail ==
    /\ pc = "read"
    /\ nread < MaxReads
    /\ nread' = nread + 1
    /\ pc' = "panicked"
    /\ ended' = "line_source"
    /\ UNCHANGED <<input, command, redirect, pending, cwd, home, stdinEof, exitCode,
                   outRedirect, handle, fs, stdoutBytes, stderrBytes, call, callLog,
                   lexVars, redirVars>>

\* OpenTarget with an open that cannot fail
OpenTargetNeverFails(f, p) ==
    IF Exists(f, p) THEN Some(f) ELSE Some(f @@ (p :> [kind |-> "file", bytes |-> <<>>]))

\* OpenOptions::open of lines 195-204 on the path p: create(true) with write(true) or
\* append(true), no truncate. None is the Err; else the file system with the file in it
OpenTarget(f, p) ==
    IF p = <<>> \/ (Exists(f, p) /\ f[p].kind = "dir") THEN None
    ELSE IF Exists(f, p) THEN Some(f)
    ELSE Some(f @@ (p :> [kind |-> "file", bytes |-> <<>>]))

\* lines 337-342: command.out() and out.writers()
OpenOutput ==
    /\ pc = "out"
    /\ IF IsSome(redirect)
       THEN LET r == Unwrap(redirect)
                abs == IF r.target = <<>> THEN <<>> ELSE Resolve(cwd, r.target)
                opened == OpenTarget(fs, abs)
            IN  /\ stdoutBytes' = stdoutBytes \o <<"Redirect is not none ">> \o r.target
                                  \o <<NL>>
                /\ IF IsSome(opened)
                   THEN /\ fs' = Unwrap(opened)
                        /\ outRedirect' = Some([r EXCEPT !.target = abs])
                        /\ pc' = "dispatch"
                        /\ UNCHANGED stderrBytes
                   ELSE /\ stderrBytes' = stderrBytes \o <<"Failed to redirect", NL>>
                        /\ pc' = "prompt"
                        /\ UNCHANGED <<fs, outRedirect>>
       ELSE /\ pc' = "dispatch"
            /\ UNCHANGED <<fs, outRedirect, stdoutBytes, stderrBytes>>
    /\ handle' = [pos |-> 0, borrowed |-> FALSE]
    /\ UNCHANGED <<input, command, redirect, pending, cwd, home, stdinEof, nread, exitCode,
                   ended, call, callLog, lexVars, redirVars>>

\* lines 344-422: the match on command.command, up to the first output call
Dispatch ==
    /\ pc = "dispatch"
    /\ LET c == Unwrap(command)
           go(ops) == /\ pending' = ops
                      /\ pc' = "writing"
                      /\ UNCHANGED <<cwd, exitCode, ended>>
       IN  CASE c.kind = "Exit" ->
                    /\ pc' = "exited"
                    /\ exitCode' = Some(c.code)
                    /\ ended' = "exit"
                    /\ UNCHANGED <<pending, cwd>>
             [] c.kind = "Echo" -> go(EchoOps(c.args))
             [] c.kind = "Type" -> go(TypeOps(c.args))
             [] c.kind = "Pwd" -> \E ok \in BOOLEAN : go(PwdOps(cwd, ok))
             [] c.kind = "Cd" ->
                    IF ~IsSome(c.path) THEN go(<<>>)
                    ELSE LET e == CdEffect(Unwrap(c.path), cwd, fs, home)
                         IN  /\ pending' = e.ops
                             /\ cwd' = IF IsSome(e.chdir) THEN Unwrap(e.chdir) ELSE cwd
                             /\ pc' = IF e.panic THEN "panicked" ELSE "writing"
                             /\ ended' = IF e.panic THEN "chdir" ELSE ended
                             /\ UNCHANGED exitCode
             [] c.kind = "NotFound" ->
                    \E sp \in SpawnResults : go(NotFoundOps(c.name, sp, Unwrap(input)))
    /\ UNCHANGED <<input, command, redirect, home, stdinEof, nread, outRedirect, handle, fs,
                   stdoutBytes, stderrBytes, call, callLog, lexVars, redirVars>>

\* the command makes its next call on one of its two writers
WriterCall ==
    /\ pc = "writing"
    /\ pending # <<>>
    /\ Head(pending).sink \in Sinks
    /\ SinkCall(Head(pending).sink, Head(pending).op, Head(pending).buf)
    /\ pending' = Tail(pending)
    /\ ended' = IF pc' = "panicked" THEN "borrow" ELSE ended
    /\ UNCHANGED <<input, command, redirect, cwd, home, stdinEof, nread, exitCode,
                   lexVars, redirVars>>

\* the call returns, and main unwraps what it returned
WriterReturn ==
    /\ pc = "writing"
    /\ \E ok \in BOOLEAN :
            /\ SinkReturn(ok)
            /\ pc' = IF ok THEN "writing" ELSE "panicked"
            /\ ended' = IF ok THEN ended ELSE "write"
    /\ UNCHANGED <<input, command, redirect, pending, cwd, home, stdinEof, nread, exitCode,
                   lexVars, redirVars>>

\* line 357: echo flushes the inherited stdout, and unwraps the result
StdoutFlush ==
    /\ pc = "writing"
    /\ call = None
    /\ pending # <<>>
    /\ Head(pending).sink = "direct"
    /\ pending' = Tail(pending)
    /\ \E ok \in BOOLEAN :
            /\ pc' = IF ok THEN "writing" ELSE "panicked"
            /\ ended' = IF ok THEN ended ELSE "flush"
    /\ UNCHANGED <<input, command, redirect, cwd, home, stdinEof, nread, exitCode,
                   outRedirect, handle, fs, stdoutBytes, stderrBytes, call, callLog,
                   lexVars, redirVars>>

\* the iteration ends (a `continue`, or the end of the loop body): the writers and the
\* CommandOutput are dropped, the file is closed
Finish ==
    /\ pc = "writing"
    /\ call = None
    /\ pending = <<>>
    /\ pc' = "prompt"
    /\ outRedirect' = None
    /\ UNCHANGED <<input, command, redirect, pending, cwd, home, stdinEof, nread, exitCode,
                   ended, handle, fs, stdoutBytes, stderrBytes, call, callLog,
                   lexVars, redirVars>>

Next ==
    \/ Prompt
    \/ ReadLine
    \/ ReadEof
    \/ ReadFail
    \/ OpenOutput
    \/ Dispatch
    \/ WriterCall
    \/ WriterReturn
    \/ StdoutFlush
    \/ Finish

Spec == Init /\ [][Next]_vars

----------------------------------------------------------------------------
(* The lexer's claims, under SpecLex *)

\* the loop of next() is about to match on the character c in the quote state q
LexAt(c, q) == ctl = "loop" /\ chars # <<>> /\ Head(chars) = c /\ quote = q

\* C1: an unquoted, unescaped space or newline is never appended to a token: met with a
\* non-empty in-progress token it ends that token, met with an empty one it is skipped; and
\* a line made only of spaces and/or a newline yields zero tokens.
C1_WhitespaceNeverAppended ==
    /\ [][(LexAt(SP, "None") \/ LexAt(NL, "None")) =>
            /\ token' = token
            /\ ctl' = IF Len(token) > 0 THEN "break" ELSE "loop"]_vars
    /\ []((ctl = "done" /\ \A i \in 1..Len(line) : line[i] \in {SP, NL}) => items = <<>>)

\* C2: in SingleQuoted or DoubleQuoted state every space is appended to the current token,
\* also when the token is still empty.
C2_QuotedSpaceAppended ==
    [][(LexAt(SP, "Single") \/ LexAt(SP, "Double")) =>
            /\ token' = Append(token, SP)
            /\ quote' = quote]_vars

\* C3: the raw redirection tail is captured only at a `>` met in Unquoted state, once, and
\* it takes the whole remainder. With an empty in-progress token the tail is `>` + remainder
\* and nothing is emitted; with an in-progress token of ASCII digits only, or exactly `&`,
\* the tail is token + `>` + remainder and the token is not emitted; otherwise the tail is
\* `>` + remainder and the in-progress token is the last token emitted. Once the tail is
\* captured nothing else is emitted.
C3_RedirectionCapture ==
    [][/\ (redirection' # redirection) =>
            /\ redirection = None
            /\ LexAt(GT, "None")
            /\ chars' = <<>>
            /\ LET pre == token
                   rem == Tail(chars)
                   isPrefix == \/ \A i \in 1..Len(pre) : pre[i] \in Digits
                               \/ pre = <<AMP>>
               IN  IF pre = <<>>
                   THEN redirection' = Some(<<GT>> \o rem) /\ ctl' = "break" /\ token' = <<>>
                   ELSE IF isPrefix
                   THEN redirection' = Some(pre \o <<GT>> \o rem) /\ ctl' = "return_none"
                   ELSE redirection' = Some(<<GT>> \o rem) /\ ctl' = "break" /\ token' = pre
       /\ (redirection # None /\ items' # items) =>
            /\ items' = Append(items, token)
            /\ ctl = "break"
            /\ token # <<>>
            /\ Head(Unwrap(redirection)) = GT
       /\ (redirection # None /\ ctl = "return_none") => items' = items
      ]_vars

\* C3 witness: `a 1>` has been lexed: one token, and the tail with its descriptor prefix
C3_Witness ==
    /\ ctl = "done"
    /\ line = <<"a", SP, "1", GT>>
    /\ items = << <<"a">> >>
    /\ redirection = Some(<<"1", GT>>)

\* C14: the quote state is always one of Unquoted, SingleQuoted, DoubleQuoted. `"` switches
\* Unquoted to DoubleQuoted and back, `'` switches Unquoted to SingleQuoted and back, and
\* the character that switches the state is not appended; `"` met in SingleQuoted state and
\* `'` met in DoubleQuoted state leave the state as it is and are appended. Within a call
\* of next() the state changes in no other way (a call that ran to the end of the line
\* inside quotes ends there, and its state with it).
C14_QuoteStateMachine ==
    /\ [](quote \in {"None", "Single", "Double"})
    /\ [][/\ LexAt(DQ, "None") => (quote' = "Double" /\ token' = token)
          /\ LexAt(DQ, "Double") => (quote' = "None" /\ token' = token)
          /\ LexAt(SQ, "None") => (quote' = "Single" /\ token' = token)
          /\ LexAt(SQ, "Single") => (quote' = "None" /\ token' = token)
          /\ LexAt(DQ, "Single") => (quote' = "Single" /\ token' = Append(token, DQ))
          /\ LexAt(SQ, "Double") => (quote' = "Double" /\ token' = Append(token, SQ))
          /\ (quote' # quote) =>
                \/ LexAt(DQ, "None") \/ LexAt(DQ, "Double")
                \/ LexAt(SQ, "None") \/ LexAt(SQ, "Single")
                \/ (chars = <<>> /\ chars' = <<>> /\ quote' = "None")
         ]_vars

\* C14 witness: `'"'` has been lexed: the token is the double quote alone, and the single
\* quotes around it are in no token
C14_Witness ==
    /\ ctl = "done"
    /\ line = <<SQ, DQ, SQ>>
    /\ items = << <<DQ>> >>
    /\ quote = "None"

\* the loop of next() is about to match on a backslash, in the quote state q, that the
\* character c follows
LexAtBackslash(q, c) == LexAt(BS, q) /\ Len(chars) >= 2 /\ chars[2] = c

\* C15: in DoubleQuoted state a backslash followed by `\`, `$`, `"` or newline appends that
\* character alone and consumes it; followed by any other character it appends the
\* backslash and leaves that character to the next step. In SingleQuoted state a backslash
\* is appended as it is and the character after it is left to the next step.
C15_BackslashInQuotes ==
    [][/\ \A c \in LexAlphabet \cup {NL} :
            /\ LexAtBackslash("Double", c) =>
                    IF c \in {BS, DOLLAR, DQ, NL}
                    THEN /\ token' = Append(token, c)
                         /\ chars' = Tail(Tail(chars))
                         /\ quote' = "Double"
                    ELSE /\ token' = Append(token, BS)
                         /\ chars' = Tail(chars)
                         /\ quote' = "Double"
            /\ LexAtBackslash("Single", c) =>
                    /\ token' = Append(token, BS)
                    /\ chars' = Tail(chars)
                    /\ quote' = "Single"
       /\ (LexAt(BS, "Single") /\ Len(chars) = 1) =>
            (token' = Append(token, BS) /\ chars' = <<>> /\ ctl' = "loop")
      ]_vars

\* C15 witness: `"\a\` and the line terminator have been lexed to the end inside the
\* double quotes: the `a` kept its backslash, the newline lost it
C15_Witness ==
    /\ line = <<DQ, BS, "a", BS, NL>>
    /\ chars = <<>>
    /\ quote = "Double"
    /\ token = <<BS, "a", NL>>

----------------------------------------------------------------------------
(* The redirection parser's claims, under SpecRedir *)

\* the raw string without its source prefix: a leading `&`, or else the leading digit run
AfterPrefix(r) ==
    IF r # <<>> /\ Head(r) = AMP THEN Tail(r)
    ELSE LET k == CHOOSE k \in 0..Len(r) :
                    /\ \A i \in 1..k : r[i] \in Digits
                    /\ k < Len(r) => r[k + 1] \notin Digits
         IN  SubSeq(r, k + 1, Len(r))

\* the length of the run of c at the head of r
RunLen(r, c) ==
    CHOOSE k \in 0..Len(r) : (\A i \in 1..k : r[i] = c) /\ (k < Len(r) => r[k + 1] # c)

\* the run not in Ws at the head of r, after the run in Ws at its head is dropped
WordAfter(r, Ws) ==
    LET a == CHOOSE k \in 0..Len(r) :
                (\A i \in 1..k : r[i] \in Ws) /\ (k < Len(r) => r[k + 1] \notin Ws)
        b == CHOOSE k \in a..Len(r) :
                (\A i \in (a + 1)..k : r[i] \notin Ws) /\ (k < Len(r) => r[k + 1] \in Ws)
    IN  SubSeq(r, a + 1, b)

\* C4: when parse returns a descriptor, its target is the maximal run of non-whitespace
\* characters that follows the `>` run, after zero or more whitespace characters.
C4_TargetAfterGtRun ==
    rpc = "ret_some" =>
        LET rest == AfterPrefix(raw)
            n == RunLen(rest, GT)
        IN  Unwrap(rresult).target = WordAfter(SubSeq(rest, n + 1, Len(rest)), {SP, NL})

\* C5: source selection is total over the prefix: `&` gives Both; no digits, or a digit run
\* worth 0 or 1, gives Stdout; worth 2 gives Stderr; every other digit run, however long,
\* makes parse return absent. parse never crashes.
C5_SourceTotal ==
    (rpc \in {"mode", "ret_source", "ret_mode", "ret_some", "panic"}) =>
        /\ rpc # "panic"
        /\ IF Head(raw) = AMP THEN rsource = "Both" /\ rpc # "ret_source"
           ELSE LET k == RunLen(raw, "0")
                    ds == SubSeq(raw, 1, Len(raw) - Len(AfterPrefix(raw)))
                    n == SubSeq(ds, k + 1, Len(ds))
                IN  IF n \in {<<>>, <<"1">>} THEN rsource = "Stdout" /\ rpc # "ret_source"
                    ELSE IF n = <<"2">> THEN rsource = "Stderr" /\ rpc # "ret_source"
                    ELSE rpc = "ret_source" /\ rresult = None

\* C6: once the source prefix is accepted, the mode depends only on the number of `>` that
\* immediately follow it: one gives Write, two give Append, any other number makes parse
\* return absent. An empty raw string returns absent.
C6_ModeByGtCount ==
    /\ (rpc \notin {"idle", "start"} /\ raw = <<>>) => (rpc = "ret_empty" /\ rresult = None)
    /\ rpc = "ret_empty" => raw = <<>>
    /\ rpc \in {"ret_mode", "ret_some"} =>
        LET n == RunLen(AfterPrefix(raw), GT)
        IN  /\ n = 1 => (rpc = "ret_some" /\ Unwrap(rresult).mode = "Write")
            /\ n = 2 => (rpc = "ret_some" /\ Unwrap(rresult).mode = "Append")
            /\ n \notin {1, 2} => (rpc = "ret_mode" /\ rresult = None)

\* C6 witness: `2>>` has been parsed into an appending descriptor of stderr
C6_Witness ==
    /\ rpc = "ret_some"
    /\ Len(raw) >= 3
    /\ SubSeq(raw, 1, 3) = <<"2", GT, GT>>
    /\ Unwrap(rresult).mode = "Append"
    /\ Unwrap(rresult).source = "Stderr"

----------------------------------------------------------------------------
(* The two writers of one CommandOutput, called in any order: SpecRouter *)

Sources == {"Stdout", "Stderr", "Both"}
Modes == {"Write", "Append"}

RouterTarget == <<"f">>
RouterBufs == {<<"a">>, <<"b", "c">>}
RouterFiles == {<<>>, <<"x", "y", "z">>}

\* the state out() leaves: no redirection, or the target opened (created when absent)
InitRouter ==
    /\ outRedirect \in {None} \cup
            {Some([source |-> src, mode |-> m, target |-> RouterTarget]) :
                src \in Sources, m \in Modes}
    /\ handle = [pos |-> 0, borrowed |-> FALSE]
    /\ \E bytes \in RouterFiles :
            fs = IF IsSome(outRedirect)
                 THEN (RouterTarget :> [kind |-> "file", bytes |-> bytes])
                 ELSE <<>>
    /\ stdoutBytes = <<>>
    /\ stderrBytes = <<>>
    /\ call = None
    /\ callLog = <<>>
    /\ pc = "writing"
    /\ LexIdle
    /\ RedirIdle
    /\ MainIdle

RouterWrite ==
    /\ pc = "writing"
    /\ Len(callLog) < MaxCalls
    /\ \E sink \in Sinks, buf \in RouterBufs : SinkCall(sink, "write", buf)
    /\ UNCHANGED <<lexVars, redirVars, mainVars>>

RouterFlush ==
    /\ pc = "writing"
    /\ Len(callLog) < MaxCalls
    /\ \E sink \in Sinks : SinkCall(sink, "flush", <<>>)
    /\ UNCHANGED <<lexVars, redirVars, mainVars>>

RouterReturn ==
    /\ pc = "writing"
    /\ \E ok \in BOOLEAN : SinkReturn(ok)
    /\ UNCHANGED <<pc, lexVars, redirVars, mainVars>>

NextRouter == RouterWrite \/ RouterFlush \/ RouterReturn

SpecRouter == InitRouter /\ [][NextRouter]_vars

----------------------------------------------------------------------------
(* The output router's claims, under SpecRouter *)

\* the bytes of the write calls of the log that returned Ok and were made on a sink of S,
\* in call order
RECURSIVE Written(_, _)
Written(log, S) ==
    IF log = <<>> THEN <<>>
    ELSE (IF Head(log).op = "write" /\ Head(log).ok /\ Head(log).sink \in S
          THEN Head(log).buf
          ELSE <<>>) \o Written(Tail(log), S)

\* the file has received exactly w through the handle opened by out(): at its end when
\* the handle appends, from its start on otherwise
FileReceived(w) ==
    LET r == Unwrap(outRedirect)
        bytes == fs[r.target].bytes
    IN  /\ Len(w) <= Len(bytes)
        /\ handle.pos = IF r.mode = "Append" /\ w # <<>> THEN Len(bytes)
                        ELSE IF r.mode = "Append" THEN 0 ELSE Len(w)
        /\ w = IF r.mode = "Append" THEN SubSeq(bytes, Len(bytes) - Len(w) + 1, Len(bytes))
               ELSE SubSeq(bytes, 1, Len(w))

\* the routing rule, as the specification words it
RuleSendsToFile(sink) ==
    /\ outRedirect # None
    /\ \/ Unwrap(outRedirect).source = "Stdout" /\ sink = "Stdout"
       \/ Unwrap(outRedirect).source = "Stderr" /\ sink = "Stderr"
       \/ Unwrap(outRedirect).source = "Both"

\* C7: every write and every flush on a sink goes to the redirection file if and only if a
\* descriptor is present and its source matches the sink's channel, and otherwise to the
\* inherited stream of the sink's own channel; the bytes arrive there and nowhere else.
C7_RoutingRule ==
    LET ToFile == {sink \in Sinks : RuleSendsToFile(sink)}
        ToStdout == {"Stdout"} \ ToFile
        ToStderr == {"Stderr"} \ ToFile
    IN  /\ \A i \in 1..Len(callLog) :
            callLog[i].dest = IF callLog[i].sink \in ToFile THEN "file"
                              ELSE IF callLog[i].sink = "Stdout" THEN "stdout" ELSE "stderr"
        /\ call = None =>
            /\ stdoutBytes = Written(callLog, ToStdout)
            /\ stderrBytes = Written(callLog, ToStderr)
            /\ outRedirect # None => FileReceived(Written(callLog, ToFile))

\* C7 witness: with a descriptor of source Stderr, the stdout sink has written to the
\* inherited stdout and the stderr sink has written to and flushed the file
C7_Witness ==
    /\ outRedirect # None
    /\ Unwrap(outRedirect).source = "Stderr"
    /\ call = None
    /\ Len(callLog) = 3
    /\ callLog[1].sink = "Stdout" /\ callLog[1].op = "write" /\ callLog[1].ok
    /\ callLog[2].sink = "Stderr" /\ callLog[2].op = "write" /\ callLog[2].ok
    /\ callLog[3].sink = "Stderr" /\ callLog[3].op = "flush"
    /\ stdoutBytes = callLog[1].buf
    /\ stderrBytes = <<>>

\* C8: with a descriptor of source Both, whatever the order of the calls on the two sinks,
\* each call borrows the one file handle and gives it back before it returns, no call
\* finds the handle borrowed, and the file receives the bytes of the write calls (those
\* that returned Ok) in call order, whichever sink each used.
C8_SharedHandle ==
    (outRedirect # None /\ Unwrap(outRedirect).source = "Both") =>
        /\ pc # "panicked"
        /\ handle.borrowed <=> call # None
        /\ call = None =>
            /\ FileReceived(Written(callLog, Sinks))
            /\ stdoutBytes = <<>>
            /\ stderrBytes = <<>>

\* C8 witness: three write calls, stderr sink, stdout sink, stderr sink, have reached the
\* file through the one handle
C8_Witness ==
    /\ outRedirect # None
    /\ Unwrap(outRedirect).source = "Both"
    /\ call = None
    /\ Len(callLog) = 3
    /\ callLog[1].sink = "Stderr" /\ callLog[2].sink = "Stdout" /\ callLog[3].sink = "Stderr"
    /\ \A i \in 1..3 : callLog[i].op = "write" /\ callLog[i].ok
    /\ callLog[1].buf # callLog[2].buf

----------------------------------------------------------------------------
(* The read-eval loop's claims, under Spec *)

\* C9: the shell process never ends because of a per-command error: it ends only through
\* an explicit exit command or a fatal failure of the line source.
C9_EndsOnlyByExitOrLineSource ==
    pc \in {"exited", "panicked"} => ended \in {"exit", "line_source"}

\* the line ends right after a backslash that is outside single quotes, is not itself
\* escaped, and is not part of a redirection tail
EndsAfterBackslash(l) ==
    /\ Len(l) >= 1
    /\ l[Len(l)] = BS
    /\ Len(l) = 1 \/ l[Len(l) - 1] # BS
    /\ \A i \in 1..Len(l) : l[i] \notin {SQ, GT}

\* C10: a line that ends immediately after a backslash in Unquoted or DoubleQuoted state
\* fails lexing with an error for that line only: the error is reported, no command is
\* built or executed, and the loop is back at its prompt.
C10_UnterminatedEscapeReported ==
    (IsSome(input) /\ EndsAfterBackslash(Unwrap(input))) =>
        /\ pc = "prompt"
        /\ ended = ""
        /\ command = None
        /\ Len(stdoutBytes) > 1
        /\ pending = <<>>

\* the line that types the words ws, ended in each way a typed line ends
TypedLines(ws) == {JoinWords(ws) \o e : e \in LineEndings}

\* the command has made all its calls and none is in progress: the iteration is about to end
CommandDone == pc = "writing" /\ pending = <<>> /\ call = None

\* C11: when the line source is at its end (the read gives no character), the loop ends:
\* after that read no prompt is printed and no read is attempted.
C11_EndOfInputEndsLoop ==
    [][(IsSome(input) /\ Unwrap(input) = <<>>) => pc' \notin {"read", "out"}]_vars

\* C12: `exit` alone exits with 127, however its line ends; `exit 3` exits with 3; `exit a`
\* and `exit 3 3` report an error and do not exit.
C12_ExitArity ==
    IsSome(input) =>
        LET l == Unwrap(input)
            exits(n) == \/ pc \in {"out", "dispatch"}
                        \/ pc = "exited" /\ exitCode = Some(n) /\ ended = "exit"
            reports == /\ pc = "prompt"
                       /\ command = None
                       /\ exitCode = None
                       /\ Len(stdoutBytes) = 3
        IN  /\ l \in TypedLines(<<wExit>>) => exits(127)
            /\ l \in TypedLines(<<wExit, <<"3">>>>) => exits(3)
            /\ l \in TypedLines(<<wExit, <<"a">>>>) => reports
            /\ l \in TypedLines(<<wExit, <<"3">>, <<"3">>>>) => reports

\* out() is about to open a target that cannot be opened for writing: the empty path, or a
\* directory
TargetUnopenable ==
    /\ pc = "out"
    /\ IsSome(redirect)
    /\ LET t == Unwrap(redirect).target
       IN  \/ t = <<>>
           \/ Resolve(cwd, t) \in DOMAIN fs /\ fs[Resolve(cwd, t)].kind = "dir"

\* C13: when the redirection target cannot be opened the command is given up before any
\* of its effects: no call is made on either sink, `exit` does not end the process, `cd`
\* does not change the working directory, nothing is spawned, no file changes, and the
\* loop is back at its prompt.
C13_OpenFailureAborts ==
    [][TargetUnopenable =>
            /\ pc' = "prompt"
            /\ cwd' = cwd
            /\ fs' = fs
            /\ call' = None
            /\ callLog' = <<>>
            /\ pending' = <<>>
            /\ exitCode' = None
            /\ ended' = ""
            /\ outRedirect' = None]_vars

\* C13 witness: `cd d > d` typed in the root directory: the open of the directory d has
\* failed, and the shell is at its prompt, still in the root directory
C13_Witness ==
    /\ pc = "prompt"
    /\ input = Some(wCd \o <<SP, "d", SP, GT, SP, "d", NL>>)
    /\ IsSome(command)
    /\ stderrBytes = <<"Failed to redirect", NL>>
    /\ cwd = Root
    /\ callLog = <<>>

\* C16: echo writes through the stdout sink nothing at all when it has no argument, and
\* else its arguments in order, one space between two of them, and one newline after the
\* last; it writes nothing through the stderr sink.
C16_EchoBytes ==
    (CommandDone /\ IsSome(command) /\ Unwrap(command).kind = "Echo") =>
        LET a == Unwrap(command).args
            joined == [i \in 1..Len(a) |-> IF i = 1 THEN a[i] ELSE <<SP>> \o a[i]]
            RECURSIVE Flat(_)
            Flat(i) == IF i > Len(a) THEN <<>> ELSE joined[i] \o Flat(i + 1)
        IN  /\ Written(callLog, {"Stdout"}) = IF Len(a) = 0 THEN <<>> ELSE Flat(1) \o <<NL>>
            /\ Written(callLog, {"Stderr"}) = <<>>
            /\ \A i \in 1..Len(callLog) : callLog[i].ok

\* C16 witness: `echo a b` has written `a b` and a newline through the stdout sink
C16_Witness ==
    /\ CommandDone
    /\ IsSome(command)
    /\ Unwrap(command).kind = "Echo"
    /\ Unwrap(command).args = << <<"a">>, <<"b">> >>
    /\ Written(callLog, {"Stdout"}) = <<"a", SP, "b", NL>>

\* the raw tail the lexer captures on the line l (None when it captures none)
TailOf(l) == LexCollect(l, None, <<>>).redirection

\* the raw tail is one the redirection parser gives no descriptor for: after its prefix
\* the run of `>` is not one or two long, or its prefix is a number other than 0, 1, 2
\* (of a length that fits 32 bits)
MalformedTail(r) ==
    LET rest == AfterPrefix(r)
        prefix == SubSeq(r, 1, Len(r) - Len(rest))
        n == StripZeros(prefix)
    IN  /\ Len(n) <= 9
        /\ \/ RunLen(rest, GT) \notin {1, 2}
           \/ prefix # <<>> /\ Head(prefix) # AMP /\ n \notin {<<>>, <<"1">>, <<"2">>}

\* the lines main may read that carry a malformed redirection tail
MalformedLines ==
    {l \in CmdLines : IsSome(TailOf(l)) /\ MalformedTail(Unwrap(TailOf(l)))}

\* the line read carries a malformed redirection tail
MalformedLine == IsSome(input) /\ Unwrap(input) \in MalformedLines

\* C17: a command typed with a malformed redirection tail runs as one typed with no
\* redirection: it has no descriptor, both sinks write to the inherited streams for the
\* whole command, and no file is opened, created or written.
C17_MalformedIsNoRedirection ==
    /\ [](MalformedLine =>
            /\ pc # "panicked" \/ ended # "redirect_parse"
            /\ redirect = None
            /\ outRedirect = None
            /\ \A i \in 1..Len(callLog) : callLog[i].dest # "file"
            /\ (IsSome(command) /\ call = None) =>
                    /\ stdoutBytes = <<"$ ">> \o Written(callLog, {"Stdout"})
                    /\ stderrBytes = Written(callLog, {"Stderr"}))
    /\ [][(pc = "read" /\ IsSome(input') /\ Unwrap(input') \in MalformedLines)
            => (LET c == ParseOf[Unwrap(input')]
                IN  c.outcome # "Err" => (pc' = "out" /\ IsSome(command')))]_vars
    /\ [][MalformedLine => fs' = fs]_vars

\* C17 witness: `echo a >>> f` has written its argument to the inherited stdout, and
\* there is no file f
C17_Witness ==
    /\ CommandDone
    /\ input = Some(wEcho \o <<SP, "a", SP, GT, GT, GT, SP, "f", NL>>)
    /\ stdoutBytes = <<"$ ", "a", NL>>
    /\ <<"/", "f">> \notin DOMAIN fs
    /\ cwd = Root

\* the commands typed with a wrong number of arguments, or with an exit code that is no
\* integer
RejectedCommands ==
    {<<wExit, <<"3">>, <<"3">>>>, <<wExit, <<"a">>>>, <<wPwd, <<"a">>>>,
     <<wCd, <<"d">>, <<"d">>>>}

\* the lines that type them, with and without a redirection
RejectedLines ==
    UNION {TypedLines(c) : c \in RejectedCommands}
    \cup {JoinWords(c) \o <<SP>> \o r \o <<NL>> : c \in RejectedCommands,
                                                  r \in TypedRedirections}

\* C18: a line rejected for its argument count or its exit code gives no command: the
\* error is reported, nothing is executed, the working directory stays, and the target
\* of the redirection typed on the line is neither opened nor created.
C18_RejectedLineHasNoEffect ==
    /\ []((IsSome(input) /\ Unwrap(input) \in RejectedLines) =>
            /\ pc = "prompt"
            /\ command = None
            /\ redirect = None
            /\ outRedirect = None
            /\ callLog = <<>>
            /\ call = None
            /\ pending = <<>>
            /\ exitCode = None
            /\ Len(stdoutBytes) = 3
            /\ stderrBytes = <<>>)
    /\ [][(pc = "read" /\ IsSome(input') /\ Unwrap(input') \in RejectedLines) =>
            (fs' = fs /\ cwd' = cwd)]_vars

\* C18 witness: `cd d d > f` typed in the root directory with no file f: the error is
\* reported, the shell is still in the root directory and there is still no file f
C18_Witness ==
    /\ pc = "prompt"
    /\ input = Some(wCd \o <<SP, "d", SP, "d", SP, GT, SP, "f", NL>>)
    /\ command = None
    /\ cwd = Root
    /\ <<"/", "f">> \notin DOMAIN fs
    /\ Len(stdoutBytes) = 3

\* C19: when a command redirected in Write mode is done the file holds exactly the bytes
\* the command wrote through the matching sinks, whatever it held before; when one
\* redirected in Append mode is done the file ends with exactly those bytes.
C19_FileContentPerMode ==
    (CommandDone /\ IsSome(outRedirect)) =>
        LET r == Unwrap(outRedirect)
            w == Written(callLog, {sink \in Sinks : RuleSendsToFile(sink)})
            bytes == fs[r.target].bytes
        IN  IF r.mode = "Write" THEN bytes = w
            ELSE /\ Len(bytes) >= Len(w)
                 /\ SubSeq(bytes, Len(bytes) - Len(w) + 1, Len(bytes)) = w

\* C20: building the output router emits nothing: in an iteration the inherited stdout
\* receives the prompt, then the diagnostic of a line that does not parse, or the bytes
\* written through a sink that the routing rule sends to the inherited stdout, and
\* nothing else; for a command redirected with source Stdout or Both, the prompt alone.
C20_OnlyPromptDiagnosticAndSinks ==
    (pc \in {"out", "dispatch", "writing"} /\ call = None) =>
        /\ stdoutBytes = <<"$ ">> \o Written(callLog, {s \in {"Stdout"} : ~RuleSendsToFile(s)})
        /\ (IsSome(redirect) /\ Unwrap(redirect).source \in {"Stdout", "Both"}) =>
                stdoutBytes = <<"$ ">>


====
